---- MODULE Spec2Model ----
(***************************************************************************)
(* Session store (database/db.js) and session API (server.js) of the      *)
(* expense-splitting application, as a state machine.                      *)
(*                                                                         *)
(* The sessions table is a function from stored ids to rows.  Time is the  *)
(* value Date.now() returns, in milliseconds; it advances in whole hours.  *)
(* Every db.js function is one synchronous better-sqlite3 call sequence    *)
(* and every express handler is a synchronous callback, so each is one     *)
(* atomic action.  `last` records the most recent call and what it         *)
(* returned.                                                               *)
(***************************************************************************)
EXTENDS Integers, Sequences, FiniteSets, TLC

VARIABLES sessions, now, nextId, last

vars == <<sessions, now, nextId, last>>

(***************************************************************************)
(* Bounds of the model.                                                    *)
(***************************************************************************)
MaxSessions == 1
MaxHoursElapsed == 1
MaxExpiryHours == 49

(***************************************************************************)
(* Program constants.                                                      *)
(***************************************************************************)
HourMs == 3600000
DEFAULT_SESSION_DURATION_HOURS == 24
MAX_SESSION_DURATION_HOURS == 168

\* JavaScript values, tagged with their type.
Null == [null |-> TRUE]
Undefined == [undefined |-> TRUE]
Bool(b) == [bool |-> b]
Num(n) == [num |-> n]

USERNAME == "admin"
Owners == {USERNAME, "u2"}
SessionIds == 1..MaxSessions
Names == {Null}

Alice == [name |-> "Alice", amount |-> 100]
ParticipantLists == {<<>>, <<Alice>>}

\* More participants, one of them with a negative amount, and the lists the
\* clients of one session write.
Bob == [name |-> "Bob", amount |-> 200]
Carol == [name |-> "Carol", amount |-> 0 - 50]
DataLists == {<<>>, <<Alice>>, <<Alice, Bob>>, <<Bob, Alice>>, <<Carol>>}

(***************************************************************************)
(* JSON.stringify / JSON.parse of the data document {participants: [...]}. *)
(* The text is modelled as the sequence of its tokens.                     *)
(***************************************************************************)
JSONstringify(data) ==
  <<"participants",
    [i \in 1..Len(data.participants) |->
       <<"name", data.participants[i].name,
         "amount", data.participants[i].amount>>]>>

JSONparse(text) ==
  [participants |->
     [i \in 1..Len(text[2]) |-> [name |-> text[2][i][2], amount |-> text[2][i][4]]]]

Boolean(n) == n # 0

\* The table without the given rows / with the given rows rewritten.
DeleteRows(db, rows) == [i \in DOMAIN db \ rows |-> db[i]]
UpdateRows(db, rows, column, value) ==
  [i \in DOMAIN db |-> IF i \in rows THEN [db[i] EXCEPT ![column] = value] ELSE db[i]]

(***************************************************************************)
(* database/db.js.  Each operator takes the sessions table and gives the   *)
(* table after the statement together with the value returned.             *)
(***************************************************************************)
\* uuidv4(): an id no earlier call returned.
uuidv4 == nextId

\* createSession storing the expiration as a duration instead of a time.
createSession_duration(db, sessionId, ownerId, name, expirationHours) ==
  LET expiresAt == expirationHours * HourMs IN
  [db |-> (sessionId :> [owner_id |-> ownerId,
                         name |-> name,
                         created_at |-> now,
                         expires_at |-> expiresAt,
                         is_active |-> 1,
                         data |-> JSONstringify([participants |-> <<>>])]) @@ db,
   ret |-> [id |-> sessionId,
            ownerId |-> ownerId,
            name |-> name,
            createdAt |-> now,
            expiresAt |-> expiresAt,
            isActive |-> TRUE,
            url |-> <<"/session/", sessionId>>,
            data |-> [participants |-> <<>>]]]

createSession(db, sessionId, ownerId, name, expirationHours) ==
  LET expiresAt == now + (expirationHours * HourMs) IN
  [db |-> (sessionId :> [owner_id |-> ownerId,
                         name |-> name,
                         created_at |-> now,
                         expires_at |-> expiresAt,
                         is_active |-> 1,
                         data |-> JSONstringify([participants |-> <<>>])]) @@ db,
   ret |-> [id |-> sessionId,
            ownerId |-> ownerId,
            name |-> name,
            createdAt |-> now,
            expiresAt |-> expiresAt,
            isActive |-> TRUE,
            url |-> <<"/session/", sessionId>>,
            data |-> [participants |-> <<>>]]]

\* getSession giving null for a session that is disabled or expired.
getSession_accessibleOnly(db, sessionId) ==
  IF \/ sessionId \notin DOMAIN db
     \/ db[sessionId].is_active = 0
     \/ db[sessionId].expires_at <= now
  THEN Null
  ELSE LET row == db[sessionId] IN
       [id |-> sessionId,
        ownerId |-> row.owner_id,
        name |-> row.name,
        createdAt |-> row.created_at,
        expiresAt |-> row.expires_at,
        isActive |-> Boolean(row.is_active),
        url |-> <<"/session/", sessionId>>,
        data |-> JSONparse(row.data)]

getSession(db, sessionId) ==
  IF sessionId \notin DOMAIN db
  THEN Null
  ELSE LET row == db[sessionId] IN
       [id |-> sessionId,
        ownerId |-> row.owner_id,
        name |-> row.name,
        createdAt |-> row.created_at,
        expiresAt |-> row.expires_at,
        isActive |-> Boolean(row.is_active),
        url |-> <<"/session/", sessionId>>,
        data |-> JSONparse(row.data)]

\* updateSession appending the new participants to the stored ones.
updateSession_merge(db, sessionId, data) ==
  LET changes == {i \in DOMAIN db : i = sessionId}
      merged == [i \in changes |->
                   JSONstringify([participants |->
                     JSONparse(db[i].data).participants \o data.participants])]
  IN [db |-> [i \in DOMAIN db |-> IF i \in changes
                                   THEN [db[i] EXCEPT !.data = merged[i]]
                                   ELSE db[i]],
      ret |-> Cardinality(changes) > 0]

updateSession(db, sessionId, data) ==
  LET changes == {i \in DOMAIN db : i = sessionId}
      text == JSONstringify(data)
  IN [db |-> UpdateRows(db, changes, "data", text),
      ret |-> Cardinality(changes) > 0]

\* listSessionsByOwner: the results the SELECT ... WHERE owner_id = ? ORDER BY
\* created_at DESC can give; rows of one created_at come in any order.
listSessionsByOwner(db, ownerId) ==
  LET ids == {i \in DOMAIN db : db[i].owner_id = ownerId}
      n == Cardinality(ids)
      orders == {o \in [1..n -> ids] :
                   \A i, j \in 1..n :
                     i < j => /\ o[i] # o[j]
                              /\ db[o[i]].created_at >= db[o[j]].created_at}
  IN {[k \in 1..n |->
         LET row == db[o[k]] IN
         [id |-> o[k],
          ownerId |-> row.owner_id,
          name |-> row.name,
          createdAt |-> row.created_at,
          expiresAt |-> row.expires_at,
          isActive |-> Boolean(row.is_active),
          url |-> <<"/session/", o[k]>>,
          data |-> JSONparse(row.data)]] : o \in orders}

\* deleteSession disabling the session instead of deleting its row.
deleteSession_disable(db, sessionId, ownerId) ==
  LET changes == {i \in DOMAIN db : i = sessionId /\ db[i].owner_id = ownerId}
  IN [db |-> UpdateRows(db, changes, "is_active", 0),
      ret |-> Cardinality(changes) > 0]

\* deleteSession with the owner test left out of the WHERE clause.
deleteSession_anyOwner(db, sessionId, ownerId) ==
  LET changes == {i \in DOMAIN db : i = sessionId}
  IN [db |-> DeleteRows(db, changes),
      ret |-> Cardinality(changes) > 0]

deleteSession(db, sessionId, ownerId) ==
  LET changes == {i \in DOMAIN db : i = sessionId /\ db[i].owner_id = ownerId}
  IN [db |-> DeleteRows(db, changes),
      ret |-> Cardinality(changes) > 0]

\* toggleSessionStatus emptying the participant list as well.
toggleSessionStatus_resetData(db, sessionId, ownerId, isActive) ==
  LET changes == {i \in DOMAIN db : i = sessionId /\ db[i].owner_id = ownerId}
      flag == IF isActive THEN 1 ELSE 0
      flagged == UpdateRows(db, changes, "is_active", flag)
  IN [db |-> UpdateRows(flagged, changes, "data", JSONstringify([participants |-> <<>>])),
      ret |-> Cardinality(changes) > 0]

\* toggleSessionStatus that can disable a session but not enable it again.
toggleSessionStatus_disableOnly(db, sessionId, ownerId, isActive) ==
  LET changes == {i \in DOMAIN db : i = sessionId /\ db[i].owner_id = ownerId}
  IN [db |-> UpdateRows(db, changes, "is_active", 0),
      ret |-> Cardinality(changes) > 0]

toggleSessionStatus(db, sessionId, ownerId, isActive) ==
  LET changes == {i \in DOMAIN db : i = sessionId /\ db[i].owner_id = ownerId}
      flag == IF isActive THEN 1 ELSE 0
  IN [db |-> UpdateRows(db, changes, "is_active", flag),
      ret |-> Cardinality(changes) > 0]

\* extendSessionExpiration without the test of the owner.
extendSessionExpiration_anyOwner(db, sessionId, ownerId, additionalHours) ==
  LET session == getSession(db, sessionId) IN
  IF session = Null
  THEN [db |-> db, ret |-> FALSE]
  ELSE LET newExpiresAt == session.expiresAt + (additionalHours * HourMs)
           changes == {i \in DOMAIN db : i = sessionId}
       IN [db |-> UpdateRows(db, changes, "expires_at", newExpiresAt),
           ret |-> Cardinality(changes) > 0]

\* extendSessionExpiration stamping created_at with the time of the call.
extendSessionExpiration_restamp(db, sessionId, ownerId, additionalHours) ==
  LET session == getSession(db, sessionId) IN
  IF session = Null \/ session.ownerId # ownerId
  THEN [db |-> db, ret |-> FALSE]
  ELSE LET newExpiresAt == session.expiresAt + (additionalHours * HourMs)
           changes == {i \in DOMAIN db : i = sessionId /\ db[i].owner_id = ownerId}
       IN [db |-> UpdateRows(UpdateRows(db, changes, "expires_at", newExpiresAt),
                             changes, "created_at", now),
           ret |-> Cardinality(changes) > 0]

\* extendSessionExpiration whose read of the stored expiration comes before
\* the write of an extension made just before it, as if the calls overlapped.
extendSessionExpiration_staleRead(db, sessionId, ownerId, additionalHours) ==
  LET session == getSession(db, sessionId) IN
  IF session = Null \/ session.ownerId # ownerId
  THEN [db |-> db, ret |-> FALSE]
  ELSE LET read == IF /\ last.op = "extendSessionExpiration"
                      /\ last.id = sessionId
                      /\ last.ret = Bool(TRUE)
                   THEN last.pre.expires_at ELSE session.expiresAt
           newExpiresAt == read + (additionalHours * HourMs)
           changes == {i \in DOMAIN db : i = sessionId /\ db[i].owner_id = ownerId}
       IN [db |-> UpdateRows(db, changes, "expires_at", newExpiresAt),
           ret |-> Cardinality(changes) > 0]

\* extendSessionExpiration counting from Date.now() instead of the stored value.
extendSessionExpiration_fromNow(db, sessionId, ownerId, additionalHours) ==
  LET session == getSession(db, sessionId) IN
  IF session = Null \/ session.ownerId # ownerId
  THEN [db |-> db, ret |-> FALSE]
  ELSE LET newExpiresAt == now + (additionalHours * HourMs)
           changes == {i \in DOMAIN db : i = sessionId /\ db[i].owner_id = ownerId}
       IN [db |-> UpdateRows(db, changes, "expires_at", newExpiresAt),
           ret |-> Cardinality(changes) > 0]

extendSessionExpiration(db, sessionId, ownerId, additionalHours) ==
  LET session == getSession(db, sessionId) IN
  IF session = Null \/ session.ownerId # ownerId
  THEN [db |-> db, ret |-> FALSE]
  ELSE LET newExpiresAt == session.expiresAt + (additionalHours * HourMs)
           changes == {i \in DOMAIN db : i = sessionId /\ db[i].owner_id = ownerId}
       IN [db |-> UpdateRows(db, changes, "expires_at", newExpiresAt),
           ret |-> Cardinality(changes) > 0]

\* cleanupExpiredSessions deleting only the expired sessions that are disabled.
cleanupExpiredSessions_disabledOnly(db) ==
  LET changes == {i \in DOMAIN db : db[i].expires_at < now /\ db[i].is_active = 0}
  IN [db |-> DeleteRows(db, changes),
      ret |-> Cardinality(changes)]

\* cleanupExpiredSessions with the comparison the wrong way round.
cleanupExpiredSessions_flipped(db) ==
  LET changes == {i \in DOMAIN db : db[i].expires_at > now}
  IN [db |-> DeleteRows(db, changes),
      ret |-> Cardinality(changes)]

\* cleanupExpiredSessions disabling the expired rows instead of deleting them.
cleanupExpiredSessions_softDelete(db) ==
  LET changes == {i \in DOMAIN db : db[i].expires_at < now}
  IN [db |-> UpdateRows(db, changes, "is_active", 0),
      ret |-> Cardinality(changes)]

cleanupExpiredSessions(db) ==
  LET changes == {i \in DOMAIN db : db[i].expires_at < now}
  IN [db |-> DeleteRows(db, changes),
      ret |-> Cardinality(changes)]

\* isSessionValid with >= in place of >.
isSessionValid_inclusive(db, sessionId) ==
  LET session == getSession(db, sessionId) IN
  IF session = Null
  THEN FALSE
  ELSE session.isActive /\ session.expiresAt >= now

isSessionValid(db, sessionId) ==
  LET session == getSession(db, sessionId) IN
  IF session = Null
  THEN FALSE
  ELSE session.isActive /\ session.expiresAt > now

(***************************************************************************)
(* The record of the most recent call: what was called, by whom, with      *)
(* which argument, what it returned, when, the row of the addressed        *)
(* session before the call, whether it repeats the call just before it,    *)
(* and when that call was made.                                            *)
(***************************************************************************)
Call(op, id, by, arg, ret) ==
  [op |-> op, id |-> id, by |-> by, arg |-> arg, ret |-> ret, at |-> now,
   pre |-> IF id \in DOMAIN sessions THEN sessions[id] ELSE Null,
   rep |-> (last.op = op /\ last.id = id /\ last.by = by /\ last.arg = arg),
   prevAt |-> last.at]

Init ==
  /\ sessions = <<>>
  /\ now = 0
  /\ nextId = 1
  /\ last = [op |-> "init", id |-> 0, by |-> "", arg |-> Undefined, ret |-> Undefined,
             at |-> 0,
             pre |-> Null, rep |-> FALSE, prevAt |-> 0]

\* Date.now() advances.
Tick ==
  /\ now < MaxHoursElapsed * HourMs
  /\ now' = now + HourMs
  /\ UNCHANGED <<sessions, nextId, last>>

(***************************************************************************)
(* Calls of the exported functions of database/db.js.                      *)
(***************************************************************************)
CreateSession(ownerId, name, expirationHours) ==
  LET r == createSession(sessions, uuidv4, ownerId, name, expirationHours) IN
  /\ nextId <= MaxSessions
  /\ sessions' = r.db
  /\ nextId' = nextId + 1
  /\ last' = Call("createSession", uuidv4, ownerId, Num(expirationHours), r.ret)
  /\ UNCHANGED now

DeleteSession(sessionId, ownerId) ==
  LET r == deleteSession(sessions, sessionId, ownerId) IN
  /\ sessions' = r.db
  /\ last' = Call("deleteSession", sessionId, ownerId, Undefined, Bool(r.ret))
  /\ UNCHANGED <<now, nextId>>

ToggleSessionStatus(sessionId, ownerId, isActive) ==
  LET r == toggleSessionStatus(sessions, sessionId, ownerId, isActive) IN
  /\ sessions' = r.db
  /\ last' = Call("toggleSessionStatus", sessionId, ownerId, Bool(isActive), Bool(r.ret))
  /\ UNCHANGED <<now, nextId>>

ExtendSessionExpiration(sessionId, ownerId, additionalHours) ==
  LET r == extendSessionExpiration(sessions, sessionId, ownerId, additionalHours) IN
  /\ \A i \in DOMAIN r.db : r.db[i].expires_at <= MaxExpiryHours * HourMs
  /\ sessions' = r.db
  /\ last' = Call("extendSessionExpiration", sessionId, ownerId, Num(additionalHours),
                  Bool(r.ret))
  /\ UNCHANGED <<now, nextId>>

CleanupExpiredSessions ==
  LET r == cleanupExpiredSessions(sessions) IN
  /\ sessions' = r.db
  /\ last' = Call("cleanupExpiredSessions", 0, "", Undefined, Num(r.ret))
  /\ UNCHANGED <<now, nextId>>

IsSessionValid(sessionId) ==
  /\ last' = Call("isSessionValid", sessionId, "", Undefined,
                  Bool(isSessionValid(sessions, sessionId)))
  /\ UNCHANGED <<sessions, now, nextId>>

\* Durations the callers of createSession pass (hours).
CreateHours == {-1, 0, 1}

Next ==
  \/ Tick
  \/ \E o \in Owners, n \in Names, h \in CreateHours : CreateSession(o, n, h)
  \/ \E id \in SessionIds, o \in Owners : DeleteSession(id, o)
  \/ \E id \in SessionIds, o \in Owners, a \in BOOLEAN : ToggleSessionStatus(id, o, a)
  \/ CleanupExpiredSessions
  \/ \E id \in SessionIds : IsSessionValid(id)

Spec == Init /\ [][Next]_vars

(***************************************************************************)
(* The owner-checked mutators together, on sessions created for one hour.  *)
(***************************************************************************)
ExtendHours == {24}

ExtendNext ==
  \/ Tick
  \/ \E o \in Owners, n \in Names : CreateSession(o, n, 1)
  \/ \E id \in SessionIds, o \in Owners : DeleteSession(id, o)
  \/ \E id \in SessionIds, o \in Owners, a \in BOOLEAN : ToggleSessionStatus(id, o, a)
  \/ \E id \in SessionIds, o \in Owners, h \in ExtendHours :
       ExtendSessionExpiration(id, o, h)

ExtendSpec == Init /\ [][ExtendNext]_vars

(***************************************************************************)
(* server.js: the session API.  A request carries the auth cookie, whether *)
(* it accepts html, the x-username header, the :sessionId parameter and    *)
(* the JSON body; a response is a status and a JSON body.                  *)
(***************************************************************************)
Arr(list) == [array |-> list]
ArrayIsArray(v) == DOMAIN v = {"array"}
TypeofBoolean(v) == DOMAIN v = {"bool"}
TypeofNumber(v) == DOMAIN v = {"num"}
\* v is falsy: undefined, null or 0.
Falsy(v) == v = Undefined \/ v = Null \/ v = Num(0)

Res(status, body) == [status |-> status, body |-> body]
Error(status, error) == Res(status, [error |-> error])

\* server.js imports the accessibility predicate of database/db.js under the
\* name isSessionAccessible; db.js defines it as isSessionValid.
isSessionAccessible(db, sessionId) == isSessionValid(db, sessionId)

isAuthenticated(req) == req.cookie = "ok"

\* The response of requireAuth when it does not call next().
requireAuth(req) ==
  IF req.acceptsHtml THEN Res(302, [location |-> "/login.html"])
  ELSE Error(401, "unauthorized")

getUsername(req) == IF req.xUsername = "" THEN USERNAME ELSE req.xUsername

\* The POST handler without the cap at MAX_SESSION_DURATION_HOURS.
PostSessionsHandler_noCap(db, req) ==
  LET ownerId == getUsername(req)
      requested == req.body.expirationHours
      hours == IF Falsy(requested) THEN DEFAULT_SESSION_DURATION_HOURS
               ELSE requested.num
      name == IF req.body.name = Undefined THEN Null ELSE req.body.name
      r == createSession(db, uuidv4, ownerId, name, hours)
  IN [db |-> r.db,
      res |-> Res(201, [sessionId |-> r.ret.id, url |-> r.ret.url,
                        expiresAt |-> r.ret.expiresAt])]

\* app.post('/api/sessions')
PostSessionsHandler(db, req) ==
  LET ownerId == getUsername(req)
      requested == req.body.expirationHours
      hours0 == IF Falsy(requested) THEN DEFAULT_SESSION_DURATION_HOURS
                ELSE requested.num
      hours == IF hours0 > MAX_SESSION_DURATION_HOURS
               THEN MAX_SESSION_DURATION_HOURS ELSE hours0
      name == IF req.body.name = Undefined THEN Null ELSE req.body.name
      r == createSession(db, uuidv4, ownerId, name, hours)
  IN [db |-> r.db,
      res |-> Res(201, [sessionId |-> r.ret.id, url |-> r.ret.url,
                        expiresAt |-> r.ret.expiresAt])]

\* The PATCH handler without the test of the owner.
PatchSessionHandler_noOwnerTest(db, req) ==
  LET sessionId == req.sessionId
      isActive == req.body.isActive
      extendHours == req.body.extendHours
      session == getSession(db, sessionId)
  IN IF session = Null THEN [db |-> db, res |-> Error(404, "session_not_found")]
     ELSE
       LET ownerId == session.ownerId
           t == IF TypeofBoolean(isActive)
                THEN toggleSessionStatus(db, sessionId, ownerId, isActive.bool)
                ELSE [db |-> db, ret |-> TRUE]
           e == IF ~Falsy(extendHours) /\ extendHours.num > 0
                THEN extendSessionExpiration(t.db, sessionId, ownerId, extendHours.num)
                ELSE [db |-> t.db, ret |-> TRUE]
       IN [db |-> e.db, res |-> Res(200, [session |-> getSession(e.db, sessionId)])]

\* The PATCH handler refusing to extend a session that has expired, after it
\* has stored the status.
PatchSessionHandler_refuseExpired(db, req) ==
  LET sessionId == req.sessionId
      isActive == req.body.isActive
      extendHours == req.body.extendHours
      ownerId == getUsername(req)
      session == getSession(db, sessionId)
  IN IF session = Null THEN [db |-> db, res |-> Error(404, "session_not_found")]
     ELSE IF session.ownerId # ownerId THEN [db |-> db, res |-> Error(403, "forbidden")]
     ELSE
       LET t == IF TypeofBoolean(isActive)
                THEN toggleSessionStatus(db, sessionId, ownerId, isActive.bool)
                ELSE [db |-> db, ret |-> TRUE]
           wanted == ~Falsy(extendHours) /\ extendHours.num > 0
       IN IF wanted /\ session.expiresAt <= now
          THEN [db |-> t.db, res |-> Error(500, "extension_failed")]
          ELSE LET e == IF wanted
                        THEN extendSessionExpiration(t.db, sessionId, ownerId,
                                                     extendHours.num)
                        ELSE [db |-> t.db, ret |-> TRUE]
               IN [db |-> e.db,
                   res |-> Res(200, [session |-> getSession(e.db, sessionId)])]

\* app.patch('/api/sessions/:sessionId')
PatchSessionHandler(db, req) ==
  LET sessionId == req.sessionId
      isActive == req.body.isActive
      extendHours == req.body.extendHours
      ownerId == getUsername(req)
      session == getSession(db, sessionId)
  IN IF session = Null THEN [db |-> db, res |-> Error(404, "session_not_found")]
     ELSE IF session.ownerId # ownerId THEN [db |-> db, res |-> Error(403, "forbidden")]
     ELSE
       LET t == IF TypeofBoolean(isActive)
                THEN toggleSessionStatus(db, sessionId, ownerId, isActive.bool)
                ELSE [db |-> db, ret |-> TRUE]
       IN IF ~t.ret THEN [db |-> t.db, res |-> Error(500, "update_failed")]
          ELSE
            LET e == IF ~Falsy(extendHours) /\ extendHours.num > 0
                     THEN extendSessionExpiration(t.db, sessionId, ownerId, extendHours.num)
                     ELSE [db |-> t.db, ret |-> TRUE]
            IN IF ~e.ret THEN [db |-> e.db, res |-> Error(500, "extension_failed")]
               ELSE [db |-> e.db,
                     res |-> Res(200, [session |-> getSession(e.db, sessionId)])]

\* The DELETE handler telling a session of another owner from a missing one.
DeleteSessionHandler_forbidden(db, req) ==
  LET r == deleteSession(db, req.sessionId, getUsername(req))
  IN IF ~r.ret
     THEN [db |-> r.db,
           res |-> IF getSession(db, req.sessionId) = Null
                   THEN Error(404, "session_not_found_or_forbidden")
                   ELSE Error(403, "forbidden")]
     ELSE [db |-> r.db, res |-> Res(204, Undefined)]

\* app.delete('/api/sessions/:sessionId')
DeleteSessionHandler(db, req) ==
  LET r == deleteSession(db, req.sessionId, getUsername(req))
  IN IF ~r.ret
     THEN [db |-> r.db, res |-> Error(404, "session_not_found_or_forbidden")]
     ELSE [db |-> r.db, res |-> Res(204, Undefined)]

\* app.get('/api/sessions/:sessionId/data')
GetSessionDataHandler(db, req) ==
  IF ~isSessionAccessible(db, req.sessionId)
  THEN [db |-> db, res |-> Error(404, "session_not_found_or_expired")]
  ELSE LET session == getSession(db, req.sessionId)
       IN [db |-> db,
           res |-> Res(200, [sessionId |-> session.id,
                             name |-> session.name,
                             expiresAt |-> session.expiresAt,
                             data |-> session.data])]

\* The PUT handler validating the body before it looks at the session.
PutSessionDataHandler_validateFirst(db, req) ==
  LET sessionId == req.sessionId
      participants == req.body.participants
  IN IF ~ArrayIsArray(participants)
     THEN [db |-> db, res |-> Error(400, "invalid_participants_data")]
     ELSE IF ~isSessionAccessible(db, sessionId)
     THEN [db |-> db, res |-> Error(404, "session_not_found_or_expired")]
     ELSE
       LET u == updateSession(db, sessionId, [participants |-> participants.array])
       IN IF ~u.ret THEN [db |-> u.db, res |-> Error(500, "update_failed")]
          ELSE LET session == getSession(u.db, sessionId)
               IN [db |-> u.db,
                   res |-> Res(200, [sessionId |-> session.id, data |-> session.data])]

\* The PUT handler testing only that the session exists.
PutSessionDataHandler_existsOnly(db, req) ==
  LET sessionId == req.sessionId
      participants == req.body.participants
  IN IF getSession(db, sessionId) = Null
     THEN [db |-> db, res |-> Error(404, "session_not_found_or_expired")]
     ELSE IF ~ArrayIsArray(participants)
     THEN [db |-> db, res |-> Error(400, "invalid_participants_data")]
     ELSE
       LET u == updateSession(db, sessionId, [participants |-> participants.array])
       IN IF ~u.ret THEN [db |-> u.db, res |-> Error(500, "update_failed")]
          ELSE LET session == getSession(u.db, sessionId)
               IN [db |-> u.db,
                   res |-> Res(200, [sessionId |-> session.id, data |-> session.data])]

\* The PUT handler keeping the list already stored when there is one.
PutSessionDataHandler_keepFirst(db, req) ==
  LET sessionId == req.sessionId
      participants == req.body.participants
  IN IF ~isSessionAccessible(db, sessionId)
     THEN [db |-> db, res |-> Error(404, "session_not_found_or_expired")]
     ELSE IF ~ArrayIsArray(participants)
     THEN [db |-> db, res |-> Error(400, "invalid_participants_data")]
     ELSE
       LET stored == getSession(db, sessionId).data.participants
           kept == IF stored = <<>> THEN participants.array ELSE stored
           u == updateSession(db, sessionId, [participants |-> kept])
       IN IF ~u.ret THEN [db |-> u.db, res |-> Error(500, "update_failed")]
          ELSE LET session == getSession(u.db, sessionId)
               IN [db |-> u.db,
                   res |-> Res(200, [sessionId |-> session.id, data |-> session.data])]

\* The PUT handler answering with the document it found stored.
PutSessionDataHandler_staleResponse(db, req) ==
  LET sessionId == req.sessionId
      participants == req.body.participants
  IN IF ~isSessionAccessible(db, sessionId)
     THEN [db |-> db, res |-> Error(404, "session_not_found_or_expired")]
     ELSE IF ~ArrayIsArray(participants)
     THEN [db |-> db, res |-> Error(400, "invalid_participants_data")]
     ELSE
       LET session == getSession(db, sessionId)
           u == updateSession(db, sessionId, [participants |-> participants.array])
       IN IF ~u.ret THEN [db |-> u.db, res |-> Error(500, "update_failed")]
          ELSE [db |-> u.db,
                res |-> Res(200, [sessionId |-> session.id, data |-> session.data])]

\* app.put('/api/sessions/:sessionId/data')
PutSessionDataHandler(db, req) ==
  LET sessionId == req.sessionId
      participants == req.body.participants
  IN IF ~isSessionAccessible(db, sessionId)
     THEN [db |-> db, res |-> Error(404, "session_not_found_or_expired")]
     ELSE IF ~ArrayIsArray(participants)
     THEN [db |-> db, res |-> Error(400, "invalid_participants_data")]
     ELSE
       LET u == updateSession(db, sessionId, [participants |-> participants.array])
       IN IF ~u.ret THEN [db |-> u.db, res |-> Error(500, "update_failed")]
          ELSE LET session == getSession(u.db, sessionId)
               IN [db |-> u.db,
                   res |-> Res(200, [sessionId |-> session.id, data |-> session.data])]

\* A request answered r.res by a handler behind requireAuth, leaving table r.db.
Protected(op, r, req) ==
  IF isAuthenticated(req)
  THEN /\ sessions' = r.db
       /\ last' = Call(op, req.sessionId, getUsername(req), req.body, r.res)
  ELSE /\ sessions' = sessions
       /\ last' = Call(op, req.sessionId, "", req.body, requireAuth(req))

\* A request answered r.res by a public handler, leaving table r.db.
Public(op, r, req) ==
  /\ sessions' = r.db
  /\ last' = Call(op, req.sessionId, "", req.body, r.res)

PostSessions(req) ==
  /\ isAuthenticated(req) => nextId <= MaxSessions
  /\ Protected("POST /api/sessions", PostSessionsHandler(sessions, req), req)
  /\ nextId' = IF isAuthenticated(req) THEN nextId + 1 ELSE nextId
  /\ UNCHANGED now

PatchSession(req) ==
  /\ Protected("PATCH /api/sessions/:sessionId", PatchSessionHandler(sessions, req), req)
  /\ \A i \in DOMAIN sessions' : sessions'[i].expires_at <= MaxExpiryHours * HourMs
  /\ UNCHANGED <<now, nextId>>

DeleteSessionRoute(req) ==
  /\ Protected("DELETE /api/sessions/:sessionId", DeleteSessionHandler(sessions, req), req)
  /\ UNCHANGED <<now, nextId>>

GetSessionData(req) ==
  /\ Public("GET /api/sessions/:sessionId/data", GetSessionDataHandler(sessions, req), req)
  /\ UNCHANGED <<now, nextId>>

PutSessionData(req) ==
  /\ Public("PUT /api/sessions/:sessionId/data", PutSessionDataHandler(sessions, req), req)
  /\ UNCHANGED <<now, nextId>>

\* The setInterval callback that sweeps expired sessions.
CleanupInterval ==
  LET deleted == cleanupExpiredSessions(sessions) IN
  /\ sessions' = deleted.db
  /\ last' = Call("setInterval cleanup", 0, "", Undefined, Num(deleted.ret))
  /\ UNCHANGED <<now, nextId>>

(***************************************************************************)
(* The requests the clients of the API send.                               *)
(***************************************************************************)
Request(cookie, acceptsHtml, xUsername, sessionId, body) ==
  [cookie |-> cookie, acceptsHtml |-> acceptsHtml, xUsername |-> xUsername,
   sessionId |-> sessionId, body |-> body]

\* Logged-in clients, as the default user and as u2.
LoggedIn(sessionId, body) ==
  {Request("ok", FALSE, x, sessionId, body) : x \in {"", "u2"}}
\* Clients without the auth cookie, asking for html or for JSON.
LoggedOut(sessionId, body) ==
  {Request("", h, "", sessionId, body) : h \in BOOLEAN}
\* Holders of a session link.
Anonymous(sessionId, body) == {Request("", FALSE, "", sessionId, body)}

PostBody(h) == [name |-> Undefined, expirationHours |-> h]
PatchBody(a, h) == [isActive |-> a, extendHours |-> h]
PutBodies ==
  {[participants |-> p] : p \in {Undefined} \cup {Arr(l) : l \in ParticipantLists}}
NoBody == [none |-> TRUE]

\* The session API with sessions of one hour and sessions already expired.
ApiNext ==
  \/ Tick
  \/ \E h \in {Num(-1), Num(1)} :
       \E req \in LoggedIn(0, PostBody(h)) \cup LoggedOut(0, PostBody(h)) :
         PostSessions(req)
  \/ \E id \in SessionIds, a \in BOOLEAN :
       \E req \in LoggedIn(id, PatchBody(Bool(a), Undefined)) : PatchSession(req)
  \/ \E id \in SessionIds : \E req \in LoggedIn(id, NoBody) : DeleteSessionRoute(req)
  \/ \E id \in SessionIds : \E req \in Anonymous(id, NoBody) : GetSessionData(req)
  \/ \E id \in SessionIds, b \in PutBodies : \E req \in Anonymous(id, b) :
       PutSessionData(req)
  \/ CleanupInterval

ApiSpec == Init /\ [][ApiNext]_vars

\* Creation through the API with every kind of requested duration.
PostHours ==
  {Undefined, Num(-1), Num(0), Num(1), Num(MAX_SESSION_DURATION_HOURS),
   Num(MAX_SESSION_DURATION_HOURS + 1)}

PostNext ==
  \/ Tick
  \/ \E h \in PostHours : \E req \in LoggedIn(0, PostBody(h)) : PostSessions(req)
  \/ \E id \in SessionIds : \E req \in Anonymous(id, NoBody) : GetSessionData(req)

PostSpec == Init /\ [][PostNext]_vars

(***************************************************************************)
(* The data document of a session: writes through the public API, and      *)
(* writes through updateSession itself.                                    *)
(***************************************************************************)
DataBodies == {[participants |-> Arr(l)] : l \in DataLists}

\* Holders of the link of one session writing and reading its data.
DataNext ==
  \/ Tick
  \/ \E o \in Owners, n \in Names : CreateSession(o, n, 1)
  \/ \E id \in SessionIds, b \in DataBodies : \E req \in Anonymous(id, b) :
       PutSessionData(req)
  \/ \E id \in SessionIds : \E req \in Anonymous(id, NoBody) : GetSessionData(req)

DataSpec == Init /\ [][DataNext]_vars

UpdateSession(sessionId, data) ==
  LET r == updateSession(sessions, sessionId, data) IN
  /\ sessions' = r.db
  /\ last' = Call("updateSession", sessionId, "", Arr(data.participants), Bool(r.ret))
  /\ UNCHANGED <<now, nextId>>

GetSession(sessionId) ==
  /\ last' = Call("getSession", sessionId, "", Undefined, getSession(sessions, sessionId))
  /\ UNCHANGED <<sessions, now, nextId>>

\* Callers of the store writing and reading the data of a session.
UpdateNext ==
  \/ \E o \in Owners, n \in Names : CreateSession(o, n, 1)
  \/ \E id \in SessionIds, l \in DataLists : UpdateSession(id, [participants |-> l])
  \/ \E id \in SessionIds : GetSession(id)
  \/ \E id \in SessionIds, o \in Owners : DeleteSession(id, o)

UpdateSpec == Init /\ [][UpdateNext]_vars

(***************************************************************************)
(* The owner-facing endpoints, called by logged-in clients under two user  *)
(* names.                                                                  *)
(***************************************************************************)
PatchBodies ==
  {PatchBody(a, h) : a \in {Undefined, Bool(TRUE), Bool(FALSE)},
                     h \in {Undefined, Num(24)}}
    \cup {PatchBody(Undefined, Num(0 - 1))}

OwnerNext ==
  \/ Tick
  \/ \E req \in LoggedIn(0, PostBody(Num(1))) : PostSessions(req)
  \/ \E id \in SessionIds, b \in PatchBodies :
       \E req \in LoggedIn(id, b) : PatchSession(req)
  \/ \E id \in SessionIds : \E req \in LoggedIn(id, NoBody) : DeleteSessionRoute(req)

OwnerSpec == Init /\ [][OwnerNext]_vars

(***************************************************************************)
(* The owner-facing reads of the store, on sessions of every age and       *)
(* status.                                                                 *)
(***************************************************************************)
ListSessionsByOwner(ownerId) ==
  /\ \E rows \in listSessionsByOwner(sessions, ownerId) :
       last' = Call("listSessionsByOwner", 0, ownerId, Undefined, Arr(rows))
  /\ UNCHANGED <<sessions, now, nextId>>

ReadNext ==
  \/ Tick
  \/ \E o \in Owners, n \in Names, h \in CreateHours : CreateSession(o, n, h)
  \/ \E id \in SessionIds, o \in Owners : DeleteSession(id, o)
  \/ \E id \in SessionIds, o \in Owners, a \in BOOLEAN : ToggleSessionStatus(id, o, a)
  \/ CleanupExpiredSessions
  \/ \E id \in SessionIds : GetSession(id)
  \/ \E o \in Owners : ListSessionsByOwner(o)

ReadSpec == Init /\ [][ReadNext]_vars

(***************************************************************************)
(* src/split.js, the settlement engine.  An amount is a decimal number of  *)
(* currency units; the model writes it in thousandths of the unit, so that *)
(* the conversion to cents rounds.                                         *)
(***************************************************************************)
MaxParticipants == 3

\* Names a participant is entered with (one of them blank), the placeholder
\* names of blank entries by position, and the names in the order of
\* localeCompare.
RawNames == {"A", "B", " "}
PersonNames == <<"Person 1", "Person 2", "Person 3", "Person 4", "Person 5">>
SortedNames == <<"A", "B">> \o PersonNames
\* Amounts entered: -1, 0, 1.005 and 2 units.
RawAmounts == {0 - 1000, 0, 1005, 2000}

\* String(name).trim()
Trim(name) == IF name = " " THEN "" ELSE name

\* a.localeCompare(b): negative, zero or positive.
localeCompare(a, b) ==
  (CHOOSE k \in 1..Len(SortedNames) : SortedNames[k] = a)
    - (CHOOSE k \in 1..Len(SortedNames) : SortedNames[k] = b)

\* Math.round((n + Number.EPSILON) * 100): halves round up.
toCents(amountNumber) == (amountNumber + 5) \div 10

\* Math.round(cents) / 100
fromCents(cents) == cents * 10

RECURSIVE SumSeq(_)
\* array.reduce((acc, x) => acc + x, 0)
SumSeq(seq) == IF seq = <<>> THEN 0 ELSE seq[1] + SumSeq(Tail(seq))

Min(a, b) == IF a < b THEN a ELSE b

normalizeParticipants(rawParticipants) ==
  LET all == [i \in 1..Len(rawParticipants) |->
                [name |-> IF Trim(rawParticipants[i].name) = ""
                          THEN PersonNames[i]
                          ELSE Trim(rawParticipants[i].name),
                 amountCents |-> toCents(rawParticipants[i].amount),
                 index |-> i - 1]]
  IN SelectSeq(all, LAMBDA p : p.amountCents >= 0)

\* The comparator of the sort by amount paid: x comes before y.
PaidBefore(x, y) ==
  IF y.paid # x.paid THEN y.paid - x.paid < 0
  ELSE IF x.name # y.name THEN localeCompare(x.name, y.name) < 0
  ELSE x.idx - y.idx < 0

\* computeTargetShares giving every participant the share rounded up.
computeTargetShares_ceil(participants) ==
  LET ps == normalizeParticipants(participants)
      n == Len(ps)
  IN IF n = 0 THEN <<>>
     ELSE LET total == SumSeq([i \in 1..n |-> ps[i].amountCents])
          IN [i \in 1..n |-> (total + n - 1) \div n]

\* computeTargetShares giving the extra cents to the first participants of
\* the list.
computeTargetShares_inputOrder(participants) ==
  LET ps == normalizeParticipants(participants)
      n == Len(ps)
  IN IF n = 0 THEN <<>>
     ELSE LET total == SumSeq([i \in 1..n |-> ps[i].amountCents])
              baseShare == total \div n
              remainder == total - baseShare * n
          IN [i \in 1..n |-> IF i <= remainder THEN baseShare + 1 ELSE baseShare]

computeTargetShares(participants) ==
  LET ps == normalizeParticipants(participants)
      n == Len(ps)
  IN IF n = 0 THEN <<>>
     ELSE LET total == SumSeq([i \in 1..n |-> ps[i].amountCents])
              baseShare == total \div n
              remainder == total - baseShare * n
              entries == [i \in 1..n |->
                            [i |-> i, paid |-> ps[i].amountCents,
                             name |-> ps[i].name, idx |-> i]]
              place(i) == 1 + Cardinality({j \in 1..n : PaidBefore(entries[j], entries[i])})
              byPaidDesc == [k \in 1..n |-> CHOOSE i \in 1..n : place(i) = k]
          IN [i \in 1..n |->
                IF \E k \in 1..remainder : byPaidDesc[k] = i
                THEN baseShare + 1 ELSE baseShare]

\* balances.filter(keep).sort(...): the positive balances, largest first, or
\* the negative ones, most negative first; the sort is stable.
SortedBalances(balances, positive) ==
  LET kept == SelectSeq(balances, LAMBDA b : IF positive THEN b.balance > 0
                                             ELSE b.balance < 0)
      m == Len(kept)
      first(k, l) == IF kept[k].balance # kept[l].balance
                     THEN IF positive THEN kept[k].balance > kept[l].balance
                          ELSE kept[k].balance < kept[l].balance
                     ELSE k < l
      place(k) == 1 + Cardinality({l \in 1..m : first(l, k)})
  IN [p \in 1..m |-> kept[CHOOSE k \in 1..m : place(k) = p]]

RECURSIVE settle_halves(_, _, _, _, _)
\* The loop of computeTransfers moving half of the amount in each round.
settle_halves(debtors, creditors, i, j, transfers) ==
  IF ~(i <= Len(debtors) /\ j <= Len(creditors)) THEN transfers
  ELSE LET debtor == debtors[i]
           creditor == creditors[j]
           amount == (Min(creditor.balance, 0 - debtor.balance) + 1) \div 2
           debtors2 == [debtors EXCEPT ![i].balance = @ + amount]
           creditors2 == [creditors EXCEPT ![j].balance = @ - amount]
       IN settle_halves(debtors2, creditors2,
                        IF debtors2[i].balance = 0 THEN i + 1 ELSE i,
                        IF creditors2[j].balance = 0 THEN j + 1 ELSE j,
                        Append(transfers, [from |-> debtor.name, to |-> creditor.name,
                                           amount |-> fromCents(amount)]))

RECURSIVE settle(_, _, _, _, _)
\* The while loop of computeTransfers (i and j count from 1).
settle(debtors, creditors, i, j, transfers) ==
  IF ~(i <= Len(debtors) /\ j <= Len(creditors)) THEN transfers
  ELSE LET debtor == debtors[i]
           creditor == creditors[j]
           amount == Min(creditor.balance, 0 - debtor.balance)
           debtors2 == IF amount > 0 THEN [debtors EXCEPT ![i].balance = @ + amount]
                       ELSE debtors
           creditors2 == IF amount > 0 THEN [creditors EXCEPT ![j].balance = @ - amount]
                         ELSE creditors
       IN settle(debtors2, creditors2,
                 IF debtors2[i].balance = 0 THEN i + 1 ELSE i,
                 IF creditors2[j].balance = 0 THEN j + 1 ELSE j,
                 IF amount > 0
                 THEN Append(transfers, [from |-> debtor.name, to |-> creditor.name,
                                         amount |-> fromCents(amount)])
                 ELSE transfers)

computeTransfers(participants) ==
  LET ps == normalizeParticipants(participants)
      n == Len(ps)
  IN IF n <= 1 THEN <<>>
     ELSE LET shares == computeTargetShares(
                          [i \in 1..n |-> [name |-> ps[i].name,
                                           amount |-> fromCents(ps[i].amountCents)]])
              balances == [i \in 1..n |-> [name |-> ps[i].name,
                                           balance |-> ps[i].amountCents - shares[i]]]
              creditors == SortedBalances(balances, TRUE)
              debtors == SortedBalances(balances, FALSE)
          IN settle(debtors, creditors, 1, 1, <<>>)

\* new Map(ps.map((p, idx) => [p.name, idx])).get(name): the last position
\* with the name, 0 for undefined.
nameToIndex(ps, name) ==
  LET found == {idx \in 1..Len(ps) : ps[idx].name = name}
  IN IF found = {} THEN 0 ELSE CHOOSE idx \in found : \A other \in found : other <= idx

RECURSIVE applyLoop(_, _, _)
\* The for loop of applyTransfers.
applyLoop(ps, amounts, transfers) ==
  IF transfers = <<>> THEN amounts
  ELSE LET t == Head(transfers)
           fromIdx == nameToIndex(ps, t.from)
           toIdx == nameToIndex(ps, t.to)
           cents == toCents(t.amount)
           paidMore == [amounts EXCEPT ![fromIdx] = @ + cents]
       IN IF fromIdx = 0 \/ toIdx = 0
          THEN applyLoop(ps, amounts, Tail(transfers))
          ELSE applyLoop(ps, [paidMore EXCEPT ![toIdx] = @ - cents], Tail(transfers))

applyTransfers(participants, transfers) ==
  LET ps == normalizeParticipants(participants)
      amounts == [i \in 1..Len(ps) |-> ps[i].amountCents]
  IN applyLoop(ps, amounts, transfers)

computeSettlement(participants) ==
  [transfers |-> computeTransfers(participants),
   shares |-> computeTargetShares(participants)]

\* The participant lists the engine is called with.
RawParticipants == {[name |-> n, amount |-> a] : n \in RawNames, a \in RawAmounts}
SplitInputs == UNION {[1..len -> RawParticipants] : len \in 0..MaxParticipants}

\* A call of the engine on the list at hand.
SplitCall(op, ret) ==
  /\ last' = [last EXCEPT !.op = op, !.ret = ret]
  /\ UNCHANGED <<sessions, now, nextId>>

SplitInit ==
  /\ sessions = <<>>
  /\ now = 0
  /\ nextId = 1
  /\ \E input \in SplitInputs :
       last = [op |-> "participants", id |-> 0, by |-> "", arg |-> Arr(input),
               ret |-> Undefined, at |-> 0, pre |-> Null, rep |-> FALSE, prevAt |-> 0]

ComputeTargetShares ==
  SplitCall("computeTargetShares", [shares |-> computeTargetShares(last.arg.array)])

ComputeTransfers ==
  SplitCall("computeTransfers", [transfers |-> computeTransfers(last.arg.array)])

ApplyTransfers ==
  SplitCall("applyTransfers",
            [amounts |-> applyTransfers(last.arg.array, computeTransfers(last.arg.array))])

ComputeSettlement ==
  SplitCall("computeSettlement", computeSettlement(last.arg.array))

SplitNext ==
  \/ ComputeTargetShares
  \/ ComputeTransfers
  \/ ApplyTransfers
  \/ ComputeSettlement

SplitSpec == SplitInit /\ [][SplitNext]_vars

(***************************************************************************)
(* computeTransfers round by round.  The state of the loop is the record   *)
(* of its locals; an entry of balances also carries pos, the place in      *)
(* balances of the object that debtors and creditors share with it, and    *)
(* pairs records for each transfer pushed the objects it was made from.    *)
(***************************************************************************)
\* The locals at the while statement: line 68 to 82 (Null after return []).
loopEntry(participants) ==
  LET ps == normalizeParticipants(participants)
      n == Len(ps)
  IN IF n <= 1 THEN Null
     ELSE LET shares == computeTargetShares(
                          [i \in 1..n |-> [name |-> ps[i].name,
                                           amount |-> fromCents(ps[i].amountCents)]])
              balances == [i \in 1..n |-> [name |-> ps[i].name,
                                           balance |-> ps[i].amountCents - shares[i],
                                           pos |-> i]]
          IN [debtors |-> SortedBalances(balances, FALSE),
              creditors |-> SortedBalances(balances, TRUE),
              i |-> 1, j |-> 1, transfers |-> <<>>, pairs |-> <<>>]

\* The condition of the while statement (i and j count from 1).
loopCond(l) == l.i <= Len(l.debtors) /\ l.j <= Len(l.creditors)

\* One round that leaves the balance of the creditor as it was.
loopBody_keepCreditor(l) ==
  LET debtor == l.debtors[l.i]
      creditor == l.creditors[l.j]
      amount == Min(creditor.balance, 0 - debtor.balance)
      debtors2 == IF amount > 0 THEN [l.debtors EXCEPT ![l.i].balance = @ + amount]
                  ELSE l.debtors
  IN [debtors |-> debtors2,
      creditors |-> l.creditors,
      i |-> IF debtors2[l.i].balance = 0 THEN l.i + 1 ELSE l.i,
      j |-> IF l.creditors[l.j].balance = 0 THEN l.j + 1 ELSE l.j,
      transfers |-> IF amount > 0
                    THEN Append(l.transfers, [from |-> debtor.name, to |-> creditor.name,
                                              amount |-> fromCents(amount)])
                    ELSE l.transfers,
      pairs |-> IF amount > 0 THEN Append(l.pairs, <<debtor.pos, creditor.pos>>)
                ELSE l.pairs]

\* One round that pushes the transfer from the creditor to the debtor.
loopBody_reversed(l) ==
  LET debtor == l.debtors[l.i]
      creditor == l.creditors[l.j]
      amount == Min(creditor.balance, 0 - debtor.balance)
      debtors2 == IF amount > 0 THEN [l.debtors EXCEPT ![l.i].balance = @ + amount]
                  ELSE l.debtors
      creditors2 == IF amount > 0 THEN [l.creditors EXCEPT ![l.j].balance = @ - amount]
                    ELSE l.creditors
  IN [debtors |-> debtors2,
      creditors |-> creditors2,
      i |-> IF debtors2[l.i].balance = 0 THEN l.i + 1 ELSE l.i,
      j |-> IF creditors2[l.j].balance = 0 THEN l.j + 1 ELSE l.j,
      transfers |-> IF amount > 0
                    THEN Append(l.transfers, [from |-> creditor.name, to |-> debtor.name,
                                              amount |-> fromCents(amount)])
                    ELSE l.transfers,
      pairs |-> IF amount > 0 THEN Append(l.pairs, <<creditor.pos, debtor.pos>>)
                ELSE l.pairs]

\* One round of the while loop: line 85 to 95.
loopBody(l) ==
  LET debtor == l.debtors[l.i]
      creditor == l.creditors[l.j]
      amount == Min(creditor.balance, 0 - debtor.balance)
      debtors2 == IF amount > 0 THEN [l.debtors EXCEPT ![l.i].balance = @ + amount]
                  ELSE l.debtors
      creditors2 == IF amount > 0 THEN [l.creditors EXCEPT ![l.j].balance = @ - amount]
                    ELSE l.creditors
  IN [debtors |-> debtors2,
      creditors |-> creditors2,
      i |-> IF debtors2[l.i].balance = 0 THEN l.i + 1 ELSE l.i,
      j |-> IF creditors2[l.j].balance = 0 THEN l.j + 1 ELSE l.j,
      transfers |-> IF amount > 0
                    THEN Append(l.transfers, [from |-> debtor.name, to |-> creditor.name,
                                              amount |-> fromCents(amount)])
                    ELSE l.transfers,
      pairs |-> IF amount > 0 THEN Append(l.pairs, <<debtor.pos, creditor.pos>>)
                ELSE l.pairs]

\* computeTransfers is called and comes to the while statement, or returns
\* [] for fewer than two participants.
EnterLoop ==
  /\ last.op = "participants"
  /\ \E participants \in SplitInputs :
       LET l == loopEntry(participants)
       IN last' = [last EXCEPT !.arg = Arr(participants),
                               !.op = IF l = Null THEN "computeTransfers" ELSE "while",
                               !.ret = IF l = Null THEN [transfers |-> <<>>] ELSE l]
  /\ UNCHANGED <<sessions, now, nextId>>

LoopRound ==
  /\ last.op = "while"
  /\ loopCond(last.ret)
  /\ SplitCall("while", loopBody(last.ret))

\* The loop is left and the transfers are returned.
ReturnTransfers ==
  /\ last.op = "while"
  /\ ~loopCond(last.ret)
  /\ SplitCall("computeTransfers", [transfers |-> last.ret.transfers])

\* No call has been made.
SettleInit ==
  /\ sessions = <<>>
  /\ now = 0
  /\ nextId = 1
  /\ last = [op |-> "participants", id |-> 0, by |-> "", arg |-> Arr(<<>>),
             ret |-> Undefined, at |-> 0, pre |-> Null, rep |-> FALSE, prevAt |-> 0]

SettleNext ==
  \/ EnterLoop
  \/ LoopRound
  \/ ReturnTransfers

\* The function runs without interruption once called.
SettleSpec == SettleInit /\ [][SettleNext]_vars /\ WF_vars(LoopRound \/ ReturnTransfers)

(***************************************************************************)
(* The life of a session to its end: owners create, extend and delete      *)
(* sessions, time passes, and the setInterval timer keeps firing.          *)
(***************************************************************************)
SweepNext ==
  \/ Tick
  \/ \E h \in {Num(0 - 1), Num(1)} :
       \E req \in LoggedIn(0, PostBody(h)) : PostSessions(req)
  \/ \E id \in SessionIds :
       \E req \in LoggedIn(id, PatchBody(Undefined, Num(24))) : PatchSession(req)
  \/ \E id \in SessionIds : \E req \in LoggedIn(id, NoBody) : DeleteSessionRoute(req)
  \/ CleanupInterval

SweepSpec ==
  Init /\ [][SweepNext]_vars /\ WF_vars(Tick) /\ WF_vars(CleanupInterval)

(***************************************************************************)
(* Every operation on the sessions of one owner, before and after they are *)
(* deleted or swept.                                                       *)
(***************************************************************************)
RemovalNext ==
  \/ Tick
  \/ \E h \in {0 - 1, 1} : CreateSession(USERNAME, Null, h)
  \/ \E id \in SessionIds : DeleteSession(id, USERNAME)
  \/ CleanupExpiredSessions
  \/ \E id \in SessionIds : GetSession(id)
  \/ \E id \in SessionIds : UpdateSession(id, [participants |-> <<Alice>>])
  \/ \E id \in SessionIds, a \in BOOLEAN : ToggleSessionStatus(id, USERNAME, a)
  \/ \E id \in SessionIds : ExtendSessionExpiration(id, USERNAME, 24)
  \/ \E id \in SessionIds : \E req \in Anonymous(id, NoBody) : GetSessionData(req)
  \/ \E id \in SessionIds :
       \E req \in Anonymous(id, [participants |-> Arr(<<Alice>>)]) : PutSessionData(req)

RemovalSpec == Init /\ [][RemovalNext]_vars

(***************************************************************************)
(* Extensions of one session by different numbers of hours, one straight   *)
(* after the other.                                                        *)
(***************************************************************************)
OverlapHours == {12, 24}

OverlapNext ==
  \/ Tick
  \/ \E o \in Owners : CreateSession(o, Null, 1)
  \/ \E id \in SessionIds, o \in Owners, h \in OverlapHours :
       ExtendSessionExpiration(id, o, h)
  \/ \E id \in SessionIds : GetSession(id)

OverlapSpec == Init /\ [][OverlapNext]_vars

(***************************************************************************)
(* PATCH requests that change the status and the expiration at once, among *)
(* deletes and sweeps.                                                     *)
(***************************************************************************)
BothBodies ==
  {PatchBody(Bool(a), Num(24)) : a \in BOOLEAN} \cup {PatchBody(Bool(FALSE), Undefined)}

PatchNext ==
  \/ Tick
  \/ \E req \in LoggedIn(0, PostBody(Num(1))) : PostSessions(req)
  \/ \E id \in SessionIds, b \in BothBodies :
       \E req \in LoggedIn(id, b) : PatchSession(req)
  \/ \E id \in SessionIds : \E req \in LoggedIn(id, NoBody) : DeleteSessionRoute(req)
  \/ CleanupInterval

PatchSpec == Init /\ [][PatchNext]_vars

(***************************************************************************)
(* A session of the default user as it expires: its owner, another user    *)
(* and the holders of its link act on it.                                  *)
(***************************************************************************)
ExpiryNext ==
  \/ Tick
  \/ CreateSession(USERNAME, Null, 1)
  \/ \E id \in SessionIds, o \in Owners : ExtendSessionExpiration(id, o, 24)
  \/ \E id \in SessionIds, o \in Owners, a \in BOOLEAN : ToggleSessionStatus(id, o, a)
  \/ \E id \in SessionIds : \E req \in Anonymous(id, NoBody) : GetSessionData(req)
  \/ \E id \in SessionIds :
       \E req \in Anonymous(id, [participants |-> Arr(<<Alice>>)]) : PutSessionData(req)
  \/ CleanupExpiredSessions

ExpirySpec == Init /\ [][ExpiryNext]_vars

(***************************************************************************)
(* The sessions management page: its buttons send requests to the session  *)
(* API as the user who is logged in.                                       *)
(***************************************************************************)
\* The request of extendSession(sessionId): the body {extend: 24}, whose
\* isActive and extendHours read as undefined.
extendSession(sessionId) ==
  LoggedIn(sessionId, [extend |-> Num(24), isActive |-> Undefined,
                       extendHours |-> Undefined])

ManageNext ==
  \/ Tick
  \/ \E req \in LoggedIn(0, PostBody(Undefined)) : PostSessions(req)
  \/ \E id \in SessionIds, a \in BOOLEAN :
       \E req \in LoggedIn(id, PatchBody(Bool(a), Undefined)) : PatchSession(req)
  \/ \E id \in SessionIds : \E req \in extendSession(id) : PatchSession(req)
  \/ \E id \in SessionIds : \E req \in LoggedIn(id, NoBody) : DeleteSessionRoute(req)

ManageSpec == Init /\ [][ManageNext]_vars

(***************************************************************************)
(* The session page (src/session.js) opened on the link of session 1.      *)
(* last.ret holds the variables and the DOM of the page: rows are the rows *)
(* of #rows, page is what the page displays, load is the response of the   *)
(* GET of loadSession while it is awaited, saves are the PUTs of           *)
(* saveSession being awaited, saveTimeout and pollInterval tell whether    *)
(* the timer is armed, and fetch is the request the last step of the page  *)
(* sent.  A fetch is served when it is sent; its continuation is a later   *)
(* step, and one PUT is awaited at a time.  The clock of the browser is    *)
(* the clock of the server.  Events fire on every element that has a       *)
(* listener, displayed or not.                                             *)
(***************************************************************************)
MaxRows == 2

EmptyRow == [name |-> "", amount |-> 0]
RowValues == {EmptyRow, Alice}

\* obj[key] of a JavaScript object: undefined for a property it lacks.
Prop(obj, key) == IF key \in DOMAIN obj THEN obj[key] ELSE Undefined

\* !v
Not(v) == Falsy(v) \/ v = Bool(FALSE)

isExpired(expiresAt) == now > expiresAt

getParticipantsFromUI(rows) == SelectSeq(rows, LAMBDA r : r.name # "")

getDataHash(participants) ==
  [hash |-> [i \in 1..Len(participants) |->
               <<"name", participants[i].name, "amount", participants[i].amount>>]]

loadParticipantsIntoUI(participants) ==
  IF Len(participants) = 0 THEN <<EmptyRow, EmptyRow>> ELSE participants

updateSessionStatus(c) ==
  IF c.sessionData = Null THEN c
  ELSE IF isExpired(c.sessionData.expiresAt) THEN [c EXCEPT !.isReadOnly = TRUE]
  ELSE IF Not(Prop(c.sessionData, "isActive")) THEN [c EXCEPT !.isReadOnly = TRUE]
  ELSE c

scheduleAutoSave(c) ==
  IF c.isReadOnly THEN c
  ELSE [c EXCEPT !.saveTimeout = TRUE, !.saveStatus = "saving"]

\* saveSession without the test of isReadOnly.
saveSession_noReadOnlyTest(c, db) ==
  LET participants == getParticipantsFromUI(c.rows)
      dataHash == getDataHash(participants)
  IN IF dataHash = c.lastSaveHash
     THEN [c |-> [c EXCEPT !.saveStatus = "saved"], db |-> db]
     ELSE LET r == PutSessionDataHandler(
                     db, Request("", FALSE, "", last.id,
                                 [participants |-> Arr(participants)]))
          IN [c |-> [c EXCEPT !.saves = @ \cup {[dataHash |-> dataHash,
                                                 ok |-> r.res.status = 200]},
                              !.fetch = "PUT"],
              db |-> r.db]

\* saveSession up to its await: the page and the table after it.
saveSession(c, db) ==
  IF c.isReadOnly THEN [c |-> c, db |-> db]
  ELSE
    LET participants == getParticipantsFromUI(c.rows)
        dataHash == getDataHash(participants)
    IN IF dataHash = c.lastSaveHash
       THEN [c |-> [c EXCEPT !.saveStatus = "saved"], db |-> db]
       ELSE LET r == PutSessionDataHandler(
                       db, Request("", FALSE, "", last.id,
                                   [participants |-> Arr(participants)]))
            IN [c |-> [c EXCEPT !.saves = @ \cup {[dataHash |-> dataHash,
                                                   ok |-> r.res.status = 200]},
                                !.fetch = "PUT"],
                db |-> r.db]

\* loadSession from its await on, and startPolling in init when it returns
\* true.
loadSession(c, response) ==
  IF response.status # 200
  THEN [c EXCEPT !.page = IF response.status = 404 THEN "Session Not Found"
                          ELSE "Error Loading Session"]
  ELSE
    LET data == response.body
        c1 == [c EXCEPT !.sessionData = data]
    IN IF isExpired(data.expiresAt)
       THEN [c1 EXCEPT !.isReadOnly = TRUE, !.page = "Session Expired"]
       ELSE IF Not(Prop(data, "isActive"))
       THEN [c1 EXCEPT !.isReadOnly = TRUE, !.page = "Session Disabled"]
       ELSE LET c2 == updateSessionStatus(c1)
                participants == IF Not(Prop(data, "participants")) THEN <<>>
                                ELSE Prop(data, "participants")
            IN [c2 EXCEPT !.rows = loadParticipantsIntoUI(participants),
                          !.lastSaveHash = getDataHash(participants),
                          !.page = "session",
                          !.saveStatus = "saved",
                          !.pollInterval = TRUE]

\* A step of the page that leaves the table alone.
PageStep(c) ==
  /\ last' = [last EXCEPT !.ret = c]
  /\ UNCHANGED <<sessions, now, nextId>>

\* The page is opened: init() calls loadSession, which sends its GET.
LoadSessionFetch ==
  /\ last.ret.page = "loading"
  /\ last.ret.load = Null
  /\ PageStep([last.ret EXCEPT
                 !.load = GetSessionDataHandler(
                            sessions, Request("", FALSE, "", last.id, NoBody)).res,
                 !.fetch = "GET"])

LoadSessionResponse ==
  /\ last.ret.load # Null
  /\ PageStep(loadSession([last.ret EXCEPT !.load = Null, !.fetch = "none"],
                          last.ret.load))

\* A click on Add.
AddClick ==
  /\ ~last.ret.isReadOnly
  /\ Len(last.ret.rows) < MaxRows
  /\ PageStep([last.ret EXCEPT !.rows = Append(@, EmptyRow), !.fetch = "none"])

\* The user types v into row i.
InputEvent(i, v) ==
  /\ i \in DOMAIN last.ret.rows
  /\ last.ret.rows[i] # v
  /\ PageStep(scheduleAutoSave([last.ret EXCEPT !.rows[i] = v, !.fetch = "none"]))

\* A click on Remove in row i.
RemoveClick(i) ==
  /\ i \in DOMAIN last.ret.rows
  /\ LET rest == [k \in 1..(Len(last.ret.rows) - 1) |->
                   IF k < i THEN last.ret.rows[k] ELSE last.ret.rows[k + 1]]
     IN PageStep(scheduleAutoSave(
                   [last.ret EXCEPT !.rows = IF rest = <<>> THEN <<EmptyRow>> ELSE rest,
                                    !.fetch = "none"]))

\* The timer of scheduleAutoSave fires.
SaveTimeoutFires ==
  /\ last.ret.saveTimeout
  /\ LET s == saveSession([last.ret EXCEPT !.saveTimeout = FALSE, !.fetch = "none"],
                          sessions)
     IN /\ \A f, g \in s.c.saves : f = g
        /\ last' = [last EXCEPT !.ret = s.c]
        /\ sessions' = s.db
  /\ UNCHANGED <<now, nextId>>

\* saveSession from its await on.
SaveResponse ==
  \E f \in last.ret.saves :
    PageStep(IF ~f.ok
             THEN [last.ret EXCEPT !.saves = @ \ {f}, !.fetch = "none",
                                   !.saveStatus = "error"]
             ELSE [last.ret EXCEPT !.saves = @ \ {f}, !.fetch = "none",
                                   !.lastSaveHash = f.dataHash,
                                   !.saveStatus = "saved"])

\* The owner creates the session of the link, for one hour.
SessionCreated ==
  /\ uuidv4 = last.id
  /\ sessions' = createSession(sessions, uuidv4, USERNAME, Null, 1).db
  /\ nextId' = nextId + 1
  /\ UNCHANGED <<now, last>>

\* The owner disables or enables the session.
SessionToggled(isActive) ==
  /\ sessions' = toggleSessionStatus(sessions, last.id, USERNAME, isActive).db
  /\ sessions' # sessions
  /\ UNCHANGED <<now, nextId, last>>

PageInit ==
  /\ sessions = <<>>
  /\ now = 0
  /\ nextId = 1
  /\ last = [op |-> "session page", id |-> 1, by |-> "", arg |-> Undefined,
             ret |-> [isReadOnly |-> FALSE, saveTimeout |-> FALSE,
                      pollInterval |-> FALSE, lastSaveHash |-> Null,
                      sessionData |-> Null, rows |-> <<>>, page |-> "loading",
                      saveStatus |-> "", load |-> Null, saves |-> {},
                      fetch |-> "none"],
             at |-> 0, pre |-> Null, rep |-> FALSE, prevAt |-> 0]

PageNext ==
  \/ Tick
  \/ SessionCreated
  \/ \E a \in BOOLEAN : SessionToggled(a)
  \/ LoadSessionFetch
  \/ LoadSessionResponse
  \/ AddClick
  \/ \E i \in 1..MaxRows, v \in RowValues : InputEvent(i, v)
  \/ \E i \in 1..MaxRows : RemoveClick(i)
  \/ SaveTimeoutFires
  \/ SaveResponse

PageSpec == PageInit /\ [][PageNext]_vars

(***************************************************************************)
(* Properties of the session store.                                        *)
(***************************************************************************)
\* The step is a call of op (time stands still during a call).
IsCall(op) == now' = now /\ last'.op = op

\* C1: isSessionValid answers TRUE exactly when the session exists, its
\* is_active flag is set and expires_at > now; a session whose expires_at
\* equals now, and an unknown id, are not valid.
C1_ValidIffActiveAndUnexpired ==
  (last.op = "isSessionValid" /\ last.at = now) =>
    (last.ret.bool <=> (/\ last.id \in DOMAIN sessions
                   /\ sessions[last.id].is_active = 1
                   /\ sessions[last.id].expires_at > now))

C1_Witness ==
  /\ last.op = "isSessionValid"
  /\ last.at = now
  /\ last.id \in DOMAIN sessions
  /\ sessions[last.id].is_active = 1
  /\ sessions[last.id].expires_at = now
  /\ last.ret = Bool(FALSE)

\* C4: cleanupExpiredSessions run at time now removes exactly the sessions
\* with expires_at <= now, whatever their owner and is_active, leaves the
\* others as they were and returns the number of sessions it removed.
C4_CleanupRemovesExpired ==
  [][IsCall("cleanupExpiredSessions") =>
       /\ DOMAIN sessions' = {i \in DOMAIN sessions : sessions[i].expires_at > now}
       /\ \A i \in DOMAIN sessions' : sessions'[i] = sessions[i]
       /\ last'.ret = Num(Cardinality(DOMAIN sessions \ DOMAIN sessions'))]_vars

\* C5: a cleanupExpiredSessions call that directly follows another one at the
\* same time returns 0 and leaves the table as the first call left it.
C5_CleanupIdempotent ==
  [][(last.op = "cleanupExpiredSessions" /\ last.at = now
      /\ IsCall("cleanupExpiredSessions")) =>
       (last'.ret = Num(0) /\ sessions' = sessions)]_vars

C5_Witness ==
  /\ last.op = "cleanupExpiredSessions"
  /\ last.rep
  /\ last.prevAt = last.at
  /\ last.ret = Num(0)
  /\ nextId > 1
  /\ Cardinality(DOMAIN sessions) < nextId - 1

\* C7: deleteSession, toggleSessionStatus and extendSessionExpiration called
\* with an owner that is not the stored owner of the session, or with an
\* unknown id, return false and leave every stored session unchanged.
C7_OwnershipGate ==
  [][(/\ now' = now
      /\ last'.op \in {"deleteSession", "toggleSessionStatus",
                       "extendSessionExpiration"}
      /\ (last'.id \notin DOMAIN sessions
          \/ sessions[last'.id].owner_id # last'.by)) =>
       (last'.ret = Bool(FALSE) /\ sessions' = sessions)]_vars

C7_Witness ==
  /\ last.op = "deleteSession"
  /\ last.id \in DOMAIN sessions
  /\ sessions[last.id].owner_id # last.by
  /\ sessions[last.id].is_active = 0
  /\ sessions[last.id].expires_at = sessions[last.id].created_at + (25 * HourMs)
  /\ last.ret = Bool(FALSE)

\* C8: a successful extendSessionExpiration(id, owner, h) sets expires_at to
\* the stored expires_at plus h hours, whatever the current time; when it
\* repeats the call before it, expires_at is 2*h hours above the value
\* stored before the first of the two.
C8_ExtendCompounds ==
  [][(IsCall("extendSessionExpiration") /\ last'.ret = Bool(TRUE)) =>
       LET id == last'.id
           h == last'.arg.num
       IN /\ id \in DOMAIN sessions /\ id \in DOMAIN sessions'
          /\ sessions'[id].expires_at = sessions[id].expires_at + (h * HourMs)
          /\ (/\ last.op = "extendSessionExpiration"
              /\ last.ret = Bool(TRUE)
              /\ last.id = id
              /\ last.arg = Num(h)) =>
               sessions'[id].expires_at = last.pre.expires_at + (2 * h * HourMs)]_vars

C8_Witness ==
  /\ last.op = "extendSessionExpiration"
  /\ last.ret = Bool(TRUE)
  /\ last.rep
  /\ last.prevAt < last.at
  /\ last.arg = Num(24)
  /\ sessions[last.id].expires_at = sessions[last.id].created_at + (49 * HourMs)

(***************************************************************************)
(* Properties of the session API.                                          *)
(***************************************************************************)
GetData == "GET /api/sessions/:sessionId/data"
PutData == "PUT /api/sessions/:sessionId/data"
NotFoundOrExpired == [status |-> 404, body |-> [error |-> "session_not_found_or_expired"]]

\* The session is stored, active and not yet expired.
Accessible(id) ==
  /\ id \in DOMAIN sessions
  /\ sessions[id].is_active = 1
  /\ sessions[id].expires_at > now

\* C2: GET and PUT .../data answer 404 session_not_found_or_expired whenever
\* the session is not accessible, with one and the same response for an
\* unknown id, an expired session and a disabled session.
C2_UniformNotFound ==
  [][(now' = now /\ last'.op \in {GetData, PutData} /\ ~Accessible(last'.id)) =>
       last'.ret = NotFoundOrExpired]_vars

C2_Witness ==
  /\ last.op = PutData
  /\ last.at = now
  /\ last.arg.participants = Undefined
  /\ last.id \in DOMAIN sessions
  /\ sessions[last.id].is_active = 0
  /\ sessions[last.id].expires_at > now
  /\ last.ret = NotFoundOrExpired

\* C3: a PUT .../data on a stored session that is disabled or expired is
\* answered 404 and changes no stored session, and a later GET .../data
\* returns the participants that are stored.
C3_RejectedPutKeepsData ==
  [][/\ (/\ now' = now
         /\ last'.op = PutData
         /\ last'.id \in DOMAIN sessions
         /\ ~Accessible(last'.id)) =>
          (last'.ret.status = 404 /\ sessions' = sessions)
     /\ (now' = now /\ last'.op = GetData /\ last'.ret.status = 200) =>
          (/\ last'.id \in DOMAIN sessions
           /\ JSONstringify(last'.ret.body.data) = sessions[last'.id].data)]_vars

C3_Witness ==
  /\ last.op = PutData
  /\ last.arg.participants = Arr(<<>>)
  /\ last.ret.status = 404
  /\ last.id \in DOMAIN sessions
  /\ sessions[last.id].expires_at <= last.at
  /\ sessions[last.id].data = <<"participants", <<<<"name", "Alice", "amount", 100>>>>>>

\* C6: a PUT .../data with a participants array that finds the session
\* accessible is answered 200 and its list is stored, and a run of the
\* cleanup sweep removes or changes no session that is accessible when it
\* runs.
C6_SweepSparesValidSessions ==
  [][/\ (/\ now' = now
         /\ last'.op = PutData
         /\ Accessible(last'.id)
         /\ ArrayIsArray(last'.arg.participants)) =>
          (/\ last'.ret.status = 200
           /\ last'.id \in DOMAIN sessions'
           /\ last'.ret.body.data.participants = last'.arg.participants.array
           /\ JSONparse(sessions'[last'.id].data).participants
                = last'.arg.participants.array)
     /\ (now' = now /\ last'.op = "setInterval cleanup") =>
          \A id \in DOMAIN sessions :
            Accessible(id) => (id \in DOMAIN sessions' /\ sessions'[id] = sessions[id])]_vars

C6_Witness ==
  /\ last.op = "setInterval cleanup"
  /\ last.at = now
  /\ now > 0
  /\ \E id \in DOMAIN sessions :
       /\ Accessible(id)
       /\ JSONparse(sessions[id].data).participants = <<Alice>>

\* C9: every stored session has expires_at > created_at, whatever duration
\* was requested at creation.
C9_ExpiresAfterCreated ==
  \A id \in DOMAIN sessions : sessions[id].expires_at > sessions[id].created_at

\* C10: a POST /api/sessions by a logged-in client is answered 201 whatever
\* expirationHours it asks for; the session it creates expires no later than
\* MAX_SESSION_DURATION_HOURS after now, exactly then when more was asked
\* for, and DEFAULT_SESSION_DURATION_HOURS after now when none was given.
C10_DurationClamp ==
  [][(now' = now /\ last'.op = "POST /api/sessions" /\ last'.by # "") =>
       LET h == last'.arg.expirationHours
           sid == last'.ret.body.sessionId
       IN /\ last'.ret.status = 201
          /\ sid \in DOMAIN sessions' \ DOMAIN sessions
          /\ last'.ret.body.expiresAt = sessions'[sid].expires_at
          /\ sessions'[sid].expires_at <= now + (168 * 3600000)
          /\ (TypeofNumber(h) /\ h.num > 168) =>
               sessions'[sid].expires_at = now + (168 * 3600000)
          /\ (h = Undefined) => sessions'[sid].expires_at = now + (24 * 3600000)]_vars

C10_Witness ==
  /\ last.op = "POST /api/sessions"
  /\ last.arg.expirationHours = Num(169)
  /\ last.ret.status = 201
  /\ last.ret.body.sessionId \in DOMAIN sessions
  /\ sessions[last.ret.body.sessionId].expires_at = last.at + (168 * 3600000)

(***************************************************************************)
(* Properties of the data document.                                        *)
(***************************************************************************)
\* Some entry of the list has a negative amount.
HasNegativeAmount(list) == \E i \in 1..Len(list) : list[i].amount < 0

\* The participants stored for the session in table db.
StoredParticipants(db, id) == JSONparse(db[id].data).participants

\* C11: a PUT .../data whose list has an entry with a negative amount is
\* answered with an error and changes no session, so that every stored
\* participant entry has amount >= 0.
C11_NegativeAmountRejected ==
  [][(/\ now' = now
      /\ last'.op = PutData
      /\ ArrayIsArray(last'.arg.participants)
      /\ HasNegativeAmount(last'.arg.participants.array)) =>
       (/\ last'.ret.status # 200
        /\ sessions' = sessions
        /\ \A id \in DOMAIN sessions' :
             ~HasNegativeAmount(StoredParticipants(sessions', id)))]_vars

\* C12: updateSession of a stored session returns true and leaves exactly
\* the given list as the session's participants, in the given order,
\* whatever was stored, changing nothing else; for an unknown id it returns
\* false and changes nothing.
C12_ReplaceIsOverwrite ==
  [][IsCall("updateSession") =>
       IF last'.id \in DOMAIN sessions
       THEN /\ last'.ret = Bool(TRUE)
            /\ DOMAIN sessions' = DOMAIN sessions
            /\ StoredParticipants(sessions', last'.id) = last'.arg.array
            /\ sessions' = [sessions EXCEPT ![last'.id].data = sessions'[last'.id].data]
       ELSE /\ last'.ret = Bool(FALSE)
            /\ sessions' = sessions]_vars

C12_Witness ==
  /\ last.op = "updateSession"
  /\ last.ret = Bool(TRUE)
  /\ last.pre # Null
  /\ JSONparse(last.pre.data).participants = <<Alice, Bob>>
  /\ last.arg = Arr(<<Bob, Alice>>)
  /\ StoredParticipants(sessions, last.id) = <<Bob, Alice>>

\* C13: every PUT .../data answered 200 leaves exactly its own list stored,
\* and the stored list of a session changes in no other step: whatever the
\* order in which the writes of two clients are served, the list stored is
\* the list of the write served last.
C13_LastWriteWins ==
  [][/\ (now' = now /\ last'.op = PutData /\ last'.ret.status = 200) =>
          (/\ last'.id \in DOMAIN sessions'
           /\ StoredParticipants(sessions', last'.id) = last'.arg.participants.array)
     /\ \A id \in DOMAIN sessions \cap DOMAIN sessions' :
          sessions'[id].data # sessions[id].data =>
            (/\ last'.op = PutData
             /\ last'.id = id
             /\ last'.ret.status = 200
             /\ StoredParticipants(sessions', id) = last'.arg.participants.array)]_vars

\* A client's write replaces the different list another client wrote at the
\* same time.
C13_Witness ==
  /\ last.op = PutData
  /\ last.ret.status = 200
  /\ last.prevAt = last.at
  /\ last.pre # Null
  /\ JSONparse(last.pre.data).participants = <<Alice, Bob>>
  /\ last.arg.participants = Arr(<<Bob, Alice>>)
  /\ StoredParticipants(sessions, last.id) = <<Bob, Alice>>

\* C14: a PUT .../data whose participants is missing or not an array is
\* answered 400 invalid_participants_data whatever the state of the session
\* it names, and changes no session.
C14_InvalidBodyRejectedFirst ==
  [][(/\ now' = now
      /\ last'.op = PutData
      /\ ~ArrayIsArray(last'.arg.participants)) =>
       (/\ last'.ret = Error(400, "invalid_participants_data")
        /\ sessions' = sessions)]_vars

(***************************************************************************)
(* Properties of the owner-facing endpoints.                               *)
(***************************************************************************)
PatchSessionOp == "PATCH /api/sessions/:sessionId"
DeleteSessionOp == "DELETE /api/sessions/:sessionId"

\* The step serves the request op of a logged-in client.
IsOwnerCall(op) == now' = now /\ last'.op = op /\ last'.ret.status \notin {302, 401}

\* C15: a PATCH by a logged-in client is answered 404 session_not_found for
\* an unknown id and 403 forbidden for a session of another owner, and then
\* nothing stored changes; for the owner it is answered 200 with the session
\* as it is stored after the request, its isActive the boolean asked for and
\* its expiresAt raised by the positive extendHours asked for.
C15_PatchOutcomes ==
  [][IsOwnerCall(PatchSessionOp) =>
       LET id == last'.id
           body == last'.arg
       IN IF id \notin DOMAIN sessions
          THEN last'.ret = Error(404, "session_not_found") /\ sessions' = sessions
          ELSE IF sessions[id].owner_id # last'.by
          THEN last'.ret = Error(403, "forbidden") /\ sessions' = sessions
          ELSE /\ last'.ret.status = 200
               /\ id \in DOMAIN sessions'
               /\ last'.ret.body.session = getSession(sessions', id)
               /\ last'.ret.body.session.isActive =
                    (IF TypeofBoolean(body.isActive) THEN body.isActive.bool
                     ELSE sessions[id].is_active = 1)
               /\ last'.ret.body.session.expiresAt =
                    (IF TypeofNumber(body.extendHours) /\ body.extendHours.num > 0
                     THEN sessions[id].expires_at + body.extendHours.num * HourMs
                     ELSE sessions[id].expires_at)]_vars

\* A client that is not the owner asks to disable and extend a stored session.
C15_Witness ==
  /\ last.op = PatchSessionOp
  /\ last.ret = Error(403, "forbidden")
  /\ last.arg = PatchBody(Bool(FALSE), Num(24))
  /\ last.id \in DOMAIN sessions
  /\ sessions[last.id].owner_id # last.by
  /\ sessions[last.id] = last.pre

\* C16: a DELETE by a logged-in client is answered 204 and removes the
\* session exactly when the client is its owner; otherwise, for a session
\* of another owner as for an unknown id, it is answered the one response
\* 404 session_not_found_or_forbidden and nothing stored changes.
C16_DeleteOutcomes ==
  [][IsOwnerCall(DeleteSessionOp) =>
       LET id == last'.id IN
       IF id \in DOMAIN sessions /\ sessions[id].owner_id = last'.by
       THEN /\ last'.ret.status = 204
            /\ sessions' = DeleteRows(sessions, {id})
       ELSE /\ last'.ret = Error(404, "session_not_found_or_forbidden")
            /\ sessions' = sessions]_vars

\* A client that is not the owner asks to delete a stored session.
C16_Witness ==
  /\ last.op = DeleteSessionOp
  /\ last.ret = Error(404, "session_not_found_or_forbidden")
  /\ last.id \in DOMAIN sessions
  /\ sessions[last.id].owner_id # last.by
  /\ sessions[last.id] = last.pre

(***************************************************************************)
(* Properties of the owner-facing reads and of createSession.              *)
(***************************************************************************)
\* The ids of the sessions of the owner in the store.
OwnedBy(ownerId) == {i \in DOMAIN sessions : sessions[i].owner_id = ownerId}

\* C17: listSessionsByOwner(o) returns one entry for each stored session of
\* owner o and no other entry, newest created first, and each entry has an
\* isExpired field that is true exactly when its expiresAt <= now.
C17_ListByOwner ==
  [][IsCall("listSessionsByOwner") =>
       LET list == last'.ret.array
           o == last'.by
       IN /\ Len(list) = Cardinality(OwnedBy(o))
          /\ {list[k].id : k \in 1..Len(list)} = OwnedBy(o)
          /\ \A k \in 1..Len(list) : list[k].ownerId = o
          /\ \A j, k \in 1..Len(list) :
               j < k => list[j].createdAt >= list[k].createdAt
          /\ \A k \in 1..Len(list) :
               /\ "isExpired" \in DOMAIN list[k]
               /\ list[k].isExpired = (list[k].expiresAt <= now)]_vars

\* C18: getSession(id) returns every stored session, and
\* listSessionsByOwner every stored session of the owner, with the isActive
\* and expiresAt that are stored, also when the session is disabled or
\* expired; getSession returns null only for an id that is not stored.
C18_OwnerReadsSeeAll ==
  [][/\ IsCall("getSession") =>
          IF last'.id \in DOMAIN sessions
          THEN /\ last'.ret # Null
               /\ last'.ret.id = last'.id
               /\ last'.ret.isActive = (sessions[last'.id].is_active = 1)
               /\ last'.ret.expiresAt = sessions[last'.id].expires_at
          ELSE last'.ret = Null
     /\ IsCall("listSessionsByOwner") =>
          \A id \in OwnedBy(last'.by) :
            \E k \in 1..Len(last'.ret.array) :
              /\ last'.ret.array[k].id = id
              /\ last'.ret.array[k].isActive = (sessions[id].is_active = 1)
              /\ last'.ret.array[k].expiresAt = sessions[id].expires_at]_vars

\* getSession returns a session that is disabled and expired.
C18_Witness ==
  /\ last.op = "getSession"
  /\ last.at = now
  /\ last.ret # Null
  /\ last.ret.isActive = FALSE
  /\ last.ret.expiresAt < now
  /\ ~Accessible(last.id)
  /\ last.id \in DOMAIN sessions

C20_GetDataReportsActive ==
  [][(now' = now /\ last'.op = GetData /\ last'.ret.status = 200) =>
       LET body == last'.ret.body IN
       /\ {"sessionId", "name", "expiresAt", "data", "isActive"} \subseteq DOMAIN body
       /\ "participants" \in DOMAIN body.data
       /\ body.isActive = TRUE]_vars

(***************************************************************************)
(* Properties of the settlement engine.                                    *)
(***************************************************************************)
\* The amounts in cents of the entries that normalization keeps.
KeptCents(input) ==
  LET cents == [i \in 1..Len(input) |-> toCents(input[i].amount)]
  IN SelectSeq(cents, LAMBDA c : c >= 0)

C22_TransfersReachShares ==
  last.op = "applyTransfers" =>
    LET input == last.arg.array
        amounts == last.ret.amounts
    IN /\ amounts = computeTargetShares(input)
       /\ SumSeq(amounts) = SumSeq(KeptCents(input))

\* C23: computeTransfers returns at most n - 1 transfers for n >= 1
\* normalized participants, and none when n <= 1 or when every participant
\* paid the target share.
C23_AtMostNMinusOneTransfers ==
  last.op = "computeTransfers" =>
    LET input == last.arg.array
        transfers == last.ret.transfers
        paid == KeptCents(input)
        n == Len(paid)
    IN /\ n >= 1 => Len(transfers) <= n - 1
       /\ n <= 1 => transfers = <<>>
       /\ paid = computeTargetShares(input) => transfers = <<>>

\* One participant paid everything: each of the two others pays a transfer.
C23_Witness ==
  /\ last.op = "computeTransfers"
  /\ Len(KeptCents(last.arg.array)) = 3
  /\ Len(last.ret.transfers) = 2

\* C24: with base = floor(total / n) and r = total - base * n, exactly r
\* participants get the share base + 1 and the others base, and each of the
\* r paid more than each of the others, or paid the same and has the
\* earlier name, or paid the same under the same name and comes earlier in
\* the list.
C24_RemainderToTopPayers ==
  last.op = "computeTargetShares" =>
    LET ps == normalizeParticipants(last.arg.array)
        shares == last.ret.shares
        n == Len(ps)
        total == SumSeq([i \in 1..n |-> ps[i].amountCents])
    IN n > 0 =>
         LET base == total \div n
             r == total - base * n
             extra == {i \in 1..n : shares[i] = base + 1}
         IN /\ \A i \in 1..n : shares[i] \in {base, base + 1}
            /\ Cardinality(extra) = r
            /\ \A i \in extra, j \in (1..n) \ extra :
                 \/ ps[i].amountCents > ps[j].amountCents
                 \/ /\ ps[i].amountCents = ps[j].amountCents
                    /\ localeCompare(ps[i].name, ps[j].name) < 0
                 \/ /\ ps[i].amountCents = ps[j].amountCents
                    /\ ps[i].name = ps[j].name
                    /\ ps[i].index < ps[j].index

\* Two participants paid the same and the extra cent goes to the one with
\* the earlier name, who comes later in the list.
C24_Witness ==
  /\ last.op = "computeTargetShares"
  /\ \E i, j \in 1..Len(last.ret.shares) :
       /\ i < j
       /\ Len(last.ret.shares) = Len(last.arg.array)
       /\ last.arg.array[i].amount = last.arg.array[j].amount
       /\ last.ret.shares[j] = last.ret.shares[i] + 1

(***************************************************************************)
(* Properties of the life of a session.                                    *)
(***************************************************************************)
\* C25: a stored session whose expires_at is before now is in the end
\* removed from the store, unless its owner extends it beyond now; so is a
\* session whose expires_at is now, as long as the clock of the model can
\* still advance.
C25_ExpiredEventuallyRemoved ==
  \A id \in SessionIds :
    /\ (id \in DOMAIN sessions /\ sessions[id].expires_at < now)
         ~> (id \notin DOMAIN sessions \/ sessions[id].expires_at >= now)
    /\ (/\ id \in DOMAIN sessions
        /\ sessions[id].expires_at <= now
        /\ now < MaxHoursElapsed * HourMs)
         ~> (id \notin DOMAIN sessions \/ sessions[id].expires_at > now)

\* The sweep has just removed a session that nobody deleted.
C25_Witness ==
  /\ last.op = "setInterval cleanup"
  /\ last.ret = Num(1)
  /\ sessions = <<>>
  /\ nextId > 1

\* The id was given to a session that is no longer stored.
Removed(id) == id < nextId /\ id \notin DOMAIN sessions

IsMutatorCall ==
  /\ now' = now
  /\ last'.op \in {"updateSession", "toggleSessionStatus", "extendSessionExpiration",
                   "cleanupExpiredSessions"}

C29_DisableEnableRoundTrip ==
  [][/\ (/\ now' = now
         /\ last'.op \in {GetData, PutData}
         /\ last'.id \in DOMAIN sessions
         /\ sessions[last'.id].is_active = 0) =>
          (last'.ret = NotFoundOrExpired /\ sessions' = sessions)
     /\ (/\ IsCall("toggleSessionStatus")
         /\ last'.arg = Bool(TRUE)
         /\ last'.ret = Bool(TRUE)
         /\ last.op = "toggleSessionStatus"
         /\ last.id = last'.id
         /\ last.arg = Bool(FALSE)
         /\ last.ret = Bool(TRUE)) =>
          (/\ sessions'[last'.id].data = last.pre.data
           /\ sessions'[last'.id].expires_at = last.pre.expires_at
           /\ sessions'[last'.id].expires_at > now =>
                isSessionValid(sessions', last'.id))]_vars

\* A session with a participant list, enabled again after a disable.
C29_Witness ==
  /\ last.op = "toggleSessionStatus"
  /\ last.arg = Bool(TRUE)
  /\ last.ret = Bool(TRUE)
  /\ last.pre.is_active = 0
  /\ last.at = now
  /\ Accessible(last.id)
  /\ StoredParticipants(sessions, last.id) = <<Alice>>

\* C30: an extendSessionExpiration(h2) by the owner that follows an
\* extendSessionExpiration(h1) of the same session leaves expires_at at the
\* value before the two calls plus (h1 + h2) hours: no extension is lost.
C30_NoLostExtension ==
  [][(/\ IsCall("extendSessionExpiration")
      /\ last'.ret = Bool(TRUE)
      /\ last.op = "extendSessionExpiration"
      /\ last.id = last'.id
      /\ last.ret = Bool(TRUE)) =>
       sessions'[last'.id].expires_at =
         last.pre.expires_at + (last.arg.num + last'.arg.num) * HourMs]_vars

\* 12 hours and then 24 hours added at one time to a session of one hour.
C30_Witness ==
  /\ last.op = "extendSessionExpiration"
  /\ last.ret = Bool(TRUE)
  /\ last.arg = Num(24)
  /\ last.prevAt = last.at
  /\ last.pre.expires_at = last.pre.created_at + 13 * HourMs
  /\ sessions[last.id].expires_at = sessions[last.id].created_at + 37 * HourMs

(***************************************************************************)
(* Properties of the handlers among other requests.                        *)
(***************************************************************************)
\* C31: whatever requests, deletes and sweeps were served before it, a PUT
\* .../data is answered 200, 400 or 404 and never update_failed, and a 200
\* response carries the id of the session and, as data.participants, the
\* very list the request submitted.
C31_PutAnswersOwnList ==
  [][(now' = now /\ last'.op = PutData) =>
       /\ last'.ret.status \in {200, 400, 404}
       /\ last'.ret.status = 200 =>
            /\ ArrayIsArray(last'.arg.participants)
            /\ last'.ret.body.sessionId = last'.id
            /\ last'.ret.body.data = [participants |-> last'.arg.participants.array]]_vars

\* A PUT of the empty list answered 200 over the list another request stored.
C31_Witness ==
  /\ last.op = PutData
  /\ last.ret.status = 200
  /\ last.ret.body.data.participants = <<>>
  /\ last.pre # Null
  /\ JSONparse(last.pre.data).participants = <<Alice>>

\* C32: a PATCH by a logged-in client that is answered 200 has stored the
\* isActive it carries and added the extendHours it carries to expires_at;
\* one answered with an error has changed nothing, so no error follows a
\* status change that was stored.
C32_PatchBothOrNeither ==
  [][IsOwnerCall(PatchSessionOp) =>
       LET id == last'.id
           body == last'.arg
       IN IF last'.ret.status = 200
          THEN /\ id \in DOMAIN sessions /\ id \in DOMAIN sessions'
               /\ TypeofBoolean(body.isActive) =>
                    sessions'[id].is_active = (IF body.isActive.bool THEN 1 ELSE 0)
               /\ (TypeofNumber(body.extendHours) /\ body.extendHours.num > 0) =>
                    sessions'[id].expires_at =
                      sessions[id].expires_at + body.extendHours.num * HourMs
          ELSE sessions' = sessions]_vars

\* An expired session disabled and extended by one request.
C32_Witness ==
  /\ last.op = PatchSessionOp
  /\ last.ret.status = 200
  /\ last.arg = PatchBody(Bool(FALSE), Num(24))
  /\ last.pre.is_active = 1
  /\ last.pre.expires_at <= last.at
  /\ sessions[last.id].is_active = 0
  /\ sessions[last.id].expires_at = last.pre.expires_at + 24 * HourMs

\* C33: for a stored session with expires_at <= now, time does not go
\* back, GET and PUT .../data answer 404 and change nothing, and the only
\* step after which the session is unexpired or valid is an
\* extendSessionExpiration by its owner.
C33_ExpiryMonotone ==
  [][\A id \in DOMAIN sessions :
       sessions[id].expires_at <= now =>
         /\ now' >= now
         /\ (now' = now /\ last'.id = id /\ last'.op \in {GetData, PutData}) =>
              (last'.ret = NotFoundOrExpired /\ sessions' = sessions)
         /\ (/\ id \in DOMAIN sessions'
             /\ \/ sessions'[id].expires_at > now'
                \/ isSessionValid(sessions', id)) =>
              /\ now' = now
              /\ last'.op = "extendSessionExpiration"
              /\ last'.id = id
              /\ last'.by = sessions[id].owner_id
              /\ last'.ret = Bool(TRUE)]_vars

\* The owner has extended a session that had expired, and it is valid again.
C33_Witness ==
  /\ last.op = "extendSessionExpiration"
  /\ last.ret = Bool(TRUE)
  /\ last.at = now
  /\ last.pre.expires_at <= last.at
  /\ last.by = last.pre.owner_id
  /\ Accessible(last.id)

(***************************************************************************)
(* Properties of the loop of computeTransfers.                             *)
(***************************************************************************)
\* C34: every call of computeTransfers returns, with the transfers that
\* the function computes; and when the loop is left both i and j are past
\* the end of their lists and every debtor and creditor balance is zero.
C34_LoopEndsSettled ==
  /\ (last.op = "while") ~> (last.op = "computeTransfers")
  /\ [](last.op = "computeTransfers" =>
          last.ret.transfers = computeTransfers(last.arg.array))
  /\ []((last.op = "while" /\ ~loopCond(last.ret)) =>
          /\ last.ret.i = Len(last.ret.debtors) + 1
          /\ last.ret.j = Len(last.ret.creditors) + 1
          /\ \A k \in DOMAIN last.ret.debtors : last.ret.debtors[k].balance = 0
          /\ \A k \in DOMAIN last.ret.creditors : last.ret.creditors[k].balance = 0)

\* The loop is left after two rounds over two debtors and one creditor.
C34_Witness ==
  /\ last.op = "while"
  /\ ~loopCond(last.ret)
  /\ Len(last.ret.debtors) = 2
  /\ Len(last.ret.creditors) = 1
  /\ Len(last.ret.transfers) = 2

\* C35: every transfer pushed by the loop has an amount above zero and goes
\* from a participant who paid less than the share to one who paid more; no
\* participant is at both ends of transfers (nor any name, when the names
\* differ); and when the loop is left the amounts sent by each participant
\* who paid less than the share add up to the difference.
C35_TransfersFromDebtorsToCreditors ==
  last.op = "while" =>
    LET l == last.ret
        ps == normalizeParticipants(last.arg.array)
        n == Len(ps)
        shares == computeTargetShares(
                    [p \in 1..n |-> [name |-> ps[p].name,
                                     amount |-> fromCents(ps[p].amountCents)]])
        m == Len(l.transfers)
        senders == {l.pairs[k][1] : k \in 1..m}
        receivers == {l.pairs[k][2] : k \in 1..m}
    IN /\ Len(l.pairs) = m
       /\ \A k \in 1..m :
            /\ l.transfers[k].amount > 0
            /\ l.transfers[k].from = ps[l.pairs[k][1]].name
            /\ l.transfers[k].to = ps[l.pairs[k][2]].name
            /\ ps[l.pairs[k][1]].amountCents < shares[l.pairs[k][1]]
            /\ ps[l.pairs[k][2]].amountCents > shares[l.pairs[k][2]]
       /\ senders \cap receivers = {}
       /\ (\A p, q \in 1..n : ps[p].name = ps[q].name => p = q) =>
            {l.transfers[k].from : k \in 1..m} \cap {l.transfers[k].to : k \in 1..m} = {}
       /\ ~loopCond(l) =>
            \A p \in 1..n :
              ps[p].amountCents < shares[p] =>
                SumSeq([k \in 1..m |-> IF l.pairs[k][1] = p THEN l.transfers[k].amount
                                       ELSE 0])
                  = fromCents(shares[p] - ps[p].amountCents)

\* The loop is left after one debtor has paid two creditors.
C35_Witness ==
  /\ last.op = "while"
  /\ ~loopCond(last.ret)
  /\ Len(last.ret.debtors) = 1
  /\ Len(last.ret.creditors) = 2
  /\ Len(last.ret.transfers) = 2

C39_ExtendButtonAdds24Hours ==
  [][(/\ IsOwnerCall(PatchSessionOp)
      /\ \E req \in extendSession(last'.id) : last'.arg = req.body
      /\ last'.ret.status = 200) =>
       sessions'[last'.id].expires_at
         = sessions[last'.id].expires_at + 24 * HourMs]_vars

====
